---- MODULE Spec2Model ----
(***************************************************************************)
(* Model of pq-ext-adapter.c: the shim that wraps the libpq client entry   *)
(* points (connect, finish, send-query, get-result) with calls into the    *)
(* external engine (PQEXT... / pqext_...).                                *)
(*                                                                         *)
(* Two revisions of the file are in the tree.  The variable `build` says   *)
(* which one is compiled: "names" is the revision whose V2 path copies the *)
(* column names the engine returns, "attdescs" the revision that reuses    *)
(* the original column descriptors.  They differ only in CSmapResultV2.    *)
(***************************************************************************)
EXTENDS Integers, Sequences, FiniteSets, TLC

\* ---------------------------------------------------------------- bounds
MaxConns == 2      \* connections opened one after the other
MaxRows == 2       \* rows of a fetched result
MaxCols == 2       \* columns of a fetched result
MaxNewCols == 2    \* columns the engine's V2 response may name
MaxLen == 1        \* byte length of a non-null fetched cell
MaxCells == 4      \* cells of a fetched result, and of the engine's grid

\* ------------------------------------------------------------- constants
NULL == 0          \* the null pointer / absent handle / absent result
NULL_LEN == -1     \* libpq's marker length of a null cell

Builds == {"names", "attdescs"}
Names == {"a", "b"}
DbNames == {"db1", "db2"}
Queries == {"q1", "q2"}
OkStatus == "PGRES_TUPLES_OK"

\* The name of column i (1-based) of a result the server sent.
OrigName(i) == IF i % 2 = 1 THEN "a" ELSE "b"

\* ------------------------------------------------------ result objects
\* A pointer to cell storage.  kind "orig": a buffer libpq allocated for a
\* fetched cell; "new": a buffer PQsetvalue allocated; "null_field": the
\* shared empty string every null cell points at.
Ptr(k, r, c) == [kind |-> k, row |-> r, col |-> c]
NullField == Ptr("null_field", 0, 0)

AttValue(l, v) == [len |-> l, value |-> v]
NullCell == AttValue(NULL_LEN, NullField)

\* A PGresult.  state: "live", "freed" (after PQclear) or "none" (no object).
NoResult ==
  [state |-> "none", resultStatus |-> "", ntups |-> 0, numAttributes |-> 0,
   attDescs |-> <<>>, tuples |-> <<>>]

FreedResult == [NoResult EXCEPT !.state = "freed"]

\* The results PQgetResult_adaptee may hand back: every shape up to
\* MaxRows x MaxCols, every cell null or a MaxLen-byte value in its own buffer.
FetchedResults ==
  UNION { UNION { { [state |-> "live", resultStatus |-> OkStatus, ntups |-> R,
                     numAttributes |-> C,
                     attDescs |-> [c \in 1..C |-> OrigName(c)],
                     tuples |-> [r \in 1..R |-> [c \in 1..C |->
                        IF nulls[r][c] THEN NullCell
                        ELSE AttValue(MaxLen, Ptr("orig", r, c))]]] :
                    nulls \in [1..R -> [1..C -> BOOLEAN]] } :
                  C \in {k \in 0..MaxCols : R * k <= MaxCells} } : R \in 0..MaxRows }

\* libpq's introspection primitives (rows and columns are 0-based, as in C).
PQntuples(res) == res.ntups
PQnfields(res) == res.numAttributes
PQfname(res, col) == res.attDescs[col + 1]

InRange(res, row, col) ==
  /\ res.state = "live"
  /\ row >= 0 /\ row < res.ntups
  /\ col >= 0 /\ col < res.numAttributes

\* Out of range counts as null, as libpq pretends.
PQgetisnull(res, row, col) ==
  IF InRange(res, row, col) THEN res.tuples[row + 1][col + 1].len = NULL_LEN
  ELSE TRUE

PQgetlength(res, row, col) ==
  IF InRange(res, row, col) /\ res.tuples[row + 1][col + 1].len # NULL_LEN
  THEN res.tuples[row + 1][col + 1].len
  ELSE 0

\* PQmakeEmptyPGresult: a live result with no rows and no columns.
PQmakeEmptyPGresult(status) ==
  [state |-> "live", resultStatus |-> status, ntups |-> 0, numAttributes |-> 0,
   attDescs |-> <<>>, tuples |-> <<>>]

\* PQsetResultAttrs: refuses a result that already has columns, and copies
\* the descriptors (the names are duplicated into the result).
PQsetResultAttrs(res, numAttributes, attDescs) ==
  IF res.state # "live" \/ res.numAttributes > 0 THEN res
  ELSE IF numAttributes <= 0 THEN res
  ELSE [res EXCEPT !.numAttributes = numAttributes,
                   !.attDescs = [c \in 1..numAttributes |-> attDescs[c]]]

\* PQsetvalue: the row must exist or be the next one; a new row starts with
\* every cell null.  Anything else is refused and leaves the result as it was.
PQsetvalue(res, row, col, isnull, len) ==
  IF \/ res.state # "live"
     \/ col < 0 \/ col >= res.numAttributes
     \/ row < 0 \/ row > res.ntups
  THEN res
  ELSE LET grown == IF row = res.ntups
                    THEN [res EXCEPT !.ntups = res.ntups + 1,
                            !.tuples = Append(res.tuples,
                                [c \in 1..res.numAttributes |-> NullCell])]
                    ELSE res
           cell == IF isnull \/ len = NULL_LEN THEN NullCell
                   ELSE IF len <= 0 THEN AttValue(0, NullField)
                   ELSE AttValue(len, Ptr("new", row + 1, col + 1))
       IN [grown EXCEPT !.tuples[row + 1][col + 1] = cell]

PQclear(res) == FreedResult

\* ------------------------------------------------ connections and engine
\* A PGconn as the adapter sees it: status, dbName and the pgExtState slot.
NoConn == [id |-> NULL, status |-> "none", dbName |-> "", pgExtState |-> NULL]

\* One call the adapter makes: an engine entry point, an _adaptee or a
\* diagnostic.  drv is the Extension State handle passed (or, for PQEXTinit,
\* returned); arg is the text argument.
Ev(op, drv, arg) == [op |-> op, drv |-> drv, arg |-> arg]

\* Engine entry points that take the Extension State.
RewriteHooks ==
  {"PQEXTmapQuery", "PQEXTsendQueryPrepared", "PQEXTsendPrepare", "PQEXTmapQueryParams"}
MapOps == {"PQEXTmapResult", "pqext_map_result_v2"}
EngineOps == RewriteHooks \cup MapOps \cup {"PQEXTclearValuesCache", "PQEXTfree"}

HasOp(events, ops) == \E i \in 1..Len(events) : events[i].op \in ops
CountOp(events, op) == Cardinality({i \in 1..Len(events) : events[i].op = op})

\* The engine's bookkeeping of its handles, run over the calls of one handler:
\* how often each handle was created and released, and whether a released
\* handle was ever passed back in.
RECURSIVE RunEngine(_, _)
RunEngine(eng, events) ==
  IF events = <<>> THEN eng
  ELSE LET e == Head(events)
           h == e.drv
           next ==
             IF h = NULL THEN eng
             ELSE IF e.op = "PQEXTinit"
               THEN [eng EXCEPT !.inits[h] = @ + 1]
             ELSE IF e.op = "PQEXTfree"
               THEN [eng EXCEPT !.frees[h] = @ + 1,
                                !.uaf = @ \/ eng.frees[h] > 0]
             ELSE IF e.op \in EngineOps
               THEN [eng EXCEPT !.uaf = @ \/ eng.frees[h] > 0]
             ELSE eng
       IN RunEngine(next, Tail(events))

\* PQconnectdbParams, PQconnectdb, PQconnectStart: c is what the _adaptee
\* returned (NoConn for a null pointer), h what PQEXTinit returns if called.
PQconnectdbParams(c, h) ==
  IF c.id # NULL /\ c.status # "CONNECTION_BAD"
  THEN [conn |-> [c EXCEPT !.pgExtState = h], ret |-> c.id,
        events |-> <<Ev("PQconnectdbParams_adaptee", NULL, ""),
                     Ev("PQEXTinit", h, c.dbName)>>]
  ELSE [conn |-> c, ret |-> c.id,
        events |-> <<Ev("PQconnectdbParams_adaptee", NULL, "")>>]

PQconnectdbIgnoresStatus(c, h) ==
  IF c.id # NULL
  THEN [conn |-> [c EXCEPT !.pgExtState = h], ret |-> c.id,
        events |-> <<Ev("PQconnectdb_adaptee", NULL, ""),
                     Ev("PQEXTinit", h, c.dbName)>>]
  ELSE [conn |-> c, ret |-> c.id,
        events |-> <<Ev("PQconnectdb_adaptee", NULL, "")>>]

PQconnectdb(c, h) ==
  IF c.id # NULL /\ c.status # "CONNECTION_BAD"
  THEN [conn |-> [c EXCEPT !.pgExtState = h], ret |-> c.id,
        events |-> <<Ev("PQconnectdb_adaptee", NULL, ""),
                     Ev("PQEXTinit", h, c.dbName)>>]
  ELSE [conn |-> c, ret |-> c.id,
        events |-> <<Ev("PQconnectdb_adaptee", NULL, "")>>]

PQconnectStart(c, h) ==
  IF c.id # NULL /\ c.status # "CONNECTION_BAD"
  THEN [conn |-> [c EXCEPT !.pgExtState = h], ret |-> c.id,
        events |-> <<Ev("PQconnectStart_adaptee", NULL, ""),
                     Ev("PQEXTinit", h, c.dbName)>>]
  ELSE [conn |-> c, ret |-> c.id,
        events |-> <<Ev("PQconnectStart_adaptee", NULL, "")>>]

PQfinishAdapteeFirst(c) ==
  IF c.id # NULL /\ c.pgExtState # NULL
  THEN <<Ev("PQfinish_adaptee", NULL, ""), Ev("PQEXTfree", c.pgExtState, "")>>
  ELSE <<Ev("PQfinish_adaptee", NULL, "")>>

\* PQfinish: release the Extension State, then the underlying teardown.
PQfinish(c) ==
  IF c.id # NULL /\ c.pgExtState # NULL
  THEN <<Ev("PQEXTfree", c.pgExtState, ""), Ev("PQfinish_adaptee", NULL, "")>>
  ELSE <<Ev("PQfinish_adaptee", NULL, "")>>

\* The query-issuing wrappers.  c is the conn argument, query the text (and
\* parameters) passed, engineRet what the engine hook returns, adapteeRet what
\* the _adaptee returns when the adapter calls it itself.
PQsendQuery(c, query, engineRet, adapteeRet) ==
  IF c.id = NULL
  THEN [ret |-> 0, events |-> <<>>, crash |-> TRUE]   \* conn->pgExtState on a null conn
  ELSE [ret |-> engineRet, crash |-> FALSE,
        events |-> <<Ev("PQEXTmapQuery", c.pgExtState, query)>>]

PQsendQueryPrepared(c, query, engineRet, adapteeRet) ==
  IF c.id # NULL /\ c.pgExtState # NULL
  THEN [ret |-> engineRet, crash |-> FALSE,
        events |-> <<Ev("PQEXTsendQueryPrepared", c.pgExtState, query)>>]
  ELSE [ret |-> adapteeRet, crash |-> FALSE,
        events |-> <<Ev("PQEXTmsgError", NULL, "PQsendQueryPrepared"),
                     Ev("PQsendQueryPrepared_adaptee", NULL, query)>>]

PQsendPrepare(c, query, engineRet, adapteeRet) ==
  IF c.id # NULL /\ c.pgExtState # NULL
  THEN [ret |-> engineRet, crash |-> FALSE,
        events |-> <<Ev("PQEXTsendPrepare", c.pgExtState, query)>>]
  ELSE [ret |-> adapteeRet, crash |-> FALSE,
        events |-> <<Ev("PQEXTmsgError", NULL, "PQsendPrepare"),
                     Ev("PQsendPrepare_adaptee", NULL, query)>>]

PQsendQueryParams(c, query, engineRet, adapteeRet) ==
  IF c.id # NULL /\ c.pgExtState # NULL
  THEN [ret |-> engineRet, crash |-> FALSE,
        events |-> <<Ev("PQEXTmapQueryParams", c.pgExtState, query)>>]
  ELSE [ret |-> adapteeRet, crash |-> FALSE,
        events |-> <<Ev("PQEXTmsgError", NULL, "PQsendQueryParams"),
                     Ev("PQsendQueryParams_adaptee", NULL, query)>>]

\* ------------------------------------------------------- value sets
\* A value of the set exchanged with the engine (PQExtPGValue_t, and the
\* (data, len) pair of PQEXTMappablePGResult).
PgValue(n, d, l) == [isnull |-> n, data |-> d, len |-> l]
pqext_pgvalue_new_null == PgValue(TRUE, NullField, 0)
pqext_pgvalue_new(cell) == PgValue(FALSE, cell.value, cell.len)
pqext_pgvalue_isnull(v) == v.isnull

\* PQExtPgResult_t: column names (col_num of them) and a row-major value list.
PgResult(n, names, values) == [col_num |-> n, column_names |-> names, values |-> values]
pqext_pgresult_new == PgResult(0, <<>>, <<>>)
pqext_pgresult_add_column(r, name) ==
  [r EXCEPT !.column_names = Append(@, name), !.col_num = @ + 1]
pqext_pgresult_push(r, item) == [r EXCEPT !.values = Append(@, item)]

\* What the engine may put in a cell of its response.
EngineValues == {pqext_pgvalue_new_null, PgValue(FALSE, Ptr("engine", 0, 0), MaxLen)}

\* How many values the engine's grid may hold for R rows of N columns: the
\* full grid, or one value short.
ValueCounts(R, N) == {R * N} \cup {k \in {R * N - 1} : k >= 0 /\ N > 0}

\* The engine's V2 responses to a result of R rows.  withNames: the response
\* carries column names (the "names" build); without, only a column count.
MappedResults(R, withNames) ==
  UNION { UNION { { PgResult(N, names, values) :
                    names \in IF withNames THEN [1..N -> Names] ELSE {<<>>},
                    values \in [1..L -> EngineValues] } :
                  L \in ValueCounts(R, N) } :
          N \in {k \in 0..MaxNewCols : R * k <= MaxCells} }

\* Allocations of the V2 mapping that may fail, one at a time.
AllocFailures == {"none", "newAttDescs", "name", "newResult"}

\* Outcomes of the undefined behaviour the V2 path can run into:
\*   cell: a read past the end of the engine's value list
\*   desc: a read past the end of the original column descriptors
\*   name: strcpy of a name into a buffer one byte short of its terminator
UBOutcomes ==
  [cell : {"null", "value", "crash"}, desc : {"a", "b", "crash"},
   name : {"ok", "crash"}]

\* What a mapping call leaves behind.
\*   ret: 0 a null pointer, 1 the fetched result object, 2 the new object
\*   orig, new: the two result objects after the call
\*   unowned: what the adapter allocated and neither freed nor handed over
MapOutcome(ret, orig, new, toMap, mapped, events, unowned, crash) ==
  [ret |-> ret, orig |-> orig, new |-> new, toMap |-> toMap, mapped |-> mapped,
   events |-> events, unowned |-> unowned, crash |-> crash]

RECURSIVE PushCellsNoNullTest(_, _, _, _)
PushCellsNoNullTest(result, row, col, resultToMap) ==
  IF row >= PQntuples(result) THEN resultToMap
  ELSE IF col >= PQnfields(result)
    THEN PushCellsNoNullTest(result, row + 1, 0, resultToMap)
  ELSE PushCellsNoNullTest(result, row, col + 1,
         pqext_pgresult_push(resultToMap,
            pqext_pgvalue_new(result.tuples[row + 1][col + 1])))

\* The loop that casts every cell of the fetched result into the value set.
RECURSIVE PushCells(_, _, _, _)
PushCells(result, row, col, resultToMap) ==
  IF row >= PQntuples(result) THEN resultToMap
  ELSE IF col >= PQnfields(result) THEN PushCells(result, row + 1, 0, resultToMap)
  ELSE IF PQgetisnull(result, row, col)
    THEN PushCells(result, row, col + 1,
                   pqext_pgresult_push(resultToMap, pqext_pgvalue_new_null))
  ELSE PushCells(result, row, col + 1,
                 pqext_pgresult_push(resultToMap,
                    pqext_pgvalue_new(result.tuples[row + 1][col + 1])))

RECURSIVE AddColumns(_, _, _)
AddColumns(result, col, resultToMap) ==
  IF col >= PQnfields(result) THEN resultToMap
  ELSE AddColumns(result, col + 1,
                  pqext_pgresult_add_column(resultToMap, PQfname(result, col)))

\* The value at idx of the engine's list; past its end, whatever the read finds.
ValueAt(values, idx, ub) ==
  IF idx < Len(values) THEN values[idx + 1]
  ELSE IF ub.cell = "null" THEN pqext_pgvalue_new_null
  ELSE PgValue(FALSE, Ptr("garbage", 0, 0), MaxLen)

\* The place of cell (row, col) in the engine's row-major value list.
CellIndex(newNumCols, row, col) == newNumCols * row + col

\* The copy of a column name: the length strlen reports (the names here are
\* one character long), the bytes malloc is asked for, and the bytes strcpy
\* writes (the name and its terminator).
StrLen(name) == IF name \in Names THEN 1 ELSE 0
NameBufSize(name) == StrLen(name)
NameCopyBytes(name) == StrLen(name) + 1

\* The loop that assigns each non-null cell of the engine's grid.
RECURSIVE SetCells(_, _, _, _, _, _, _)
SetCells(newResult, values, numRows, newNumCols, row, col, ub) ==
  IF row >= numRows THEN newResult
  ELSE IF col >= newNumCols
    THEN SetCells(newResult, values, numRows, newNumCols, row + 1, 0, ub)
  ELSE LET idx == CellIndex(newNumCols, row, col)
           v == ValueAt(values, idx, ub)
       IN IF ~pqext_pgvalue_isnull(v)
          THEN SetCells(PQsetvalue(newResult, row, col, FALSE, v.len),
                        values, numRows, newNumCols, row, col + 1, ub)
          ELSE SetCells(newResult, values, numRows, newNumCols, row, col + 1, ub)

Crashed(toMap, mapped, events) ==
  MapOutcome(NULL, NoResult, NoResult, toMap, mapped, events, {}, TRUE)

\* The events of a V2 call up to the engine's answer.
V2Called(driver) == <<Ev("pqext_map_result_v2", driver, "")>>

\* The reconstruction branch of CSmapResultV2 ("names" build): new column
\* descriptors named after the engine's columns, a new result object filled
\* from the engine's grid, the original released.
V2Reconstruct(driver, result, resultToMap, resultMapped, fail, ub) ==
  LET numRows == PQntuples(result)
      newNumCols == Len(resultMapped.column_names)
  IN IF fail \in {"newAttDescs", "name"} \/ ub.name = "crash"
          \/ (numRows * newNumCols > Len(resultMapped.values) /\ ub.cell = "crash")
     THEN Crashed(resultToMap, resultMapped, V2Called(driver))
     ELSE LET newAttDescs == [c \in 1..newNumCols |-> resultMapped.column_names[c]]
              empty == IF fail = "newResult" THEN NoResult
                       ELSE PQmakeEmptyPGresult(result.resultStatus)
              withAttrs == PQsetResultAttrs(empty, newNumCols, newAttDescs)
              newResult == SetCells(withAttrs, resultMapped.values, numRows,
                                    newNumCols, 0, 0, ub)
          IN MapOutcome(IF fail = "newResult" THEN NULL ELSE 2,
                        PQclear(result), newResult, resultToMap, resultMapped,
                        V2Called(driver) \o
                          <<Ev("PQmakeEmptyPGresult", NULL, ""),
                            Ev("PQclear", NULL, "result"),
                            Ev("pqext_pgresult_drop", NULL, "resultMapped")>>,
                        {"newAttDescs", "name"}, FALSE)

V2PassThroughClears(driver, result, resultToMap, resultMapped) ==
  MapOutcome(1, PQclear(result), NoResult, resultToMap, resultMapped,
             V2Called(driver) \o <<Ev("PQclear", NULL, "result"),
                                   Ev("pqext_pgresult_drop", NULL, "resultMapped")>>,
             {}, FALSE)

\* The pass-through branch: the engine named no column.
V2PassThrough(driver, result, resultToMap, resultMapped) ==
  MapOutcome(1, result, NoResult, resultToMap, resultMapped,
             V2Called(driver) \o <<Ev("pqext_pgresult_drop", NULL, "resultMapped")>>,
             {}, FALSE)

\* CSmapResultV2 of the "names" build.  driver: the Extension State; result:
\* the fetched object (live); resultMapped: the engine's response; fail: the
\* allocation that fails; ub: the outcomes of undefined behaviour.
CSmapResultV2(driver, result, resultMapped, fail, ub) ==
  LET resultToMap == PushCells(result, 0, 0, AddColumns(result, 0, pqext_pgresult_new))
      newNumCols == Len(resultMapped.column_names)
  IN IF result.state = "none"
     THEN MapOutcome(NULL, NoResult, NoResult, pqext_pgresult_new, pqext_pgresult_new,
                     <<>>, {}, FALSE)
     ELSE IF newNumCols # 0
     THEN V2Reconstruct(driver, result, resultToMap, resultMapped, fail, ub)
     ELSE V2PassThrough(driver, result, resultToMap, resultMapped)

\* The descriptors PQsetResultAttrs reads from result->attDescs when asked for
\* new_num_cols of them: the original ones, and past their end whatever is there.
ReadAttDescs(result, new_num_cols, ub) ==
  [c \in 1..new_num_cols |->
     IF c <= result.numAttributes THEN result.attDescs[c] ELSE ub.desc]

\* CSmapResultV2 of the "attdescs" build (src/interfaces/libpq/pq-ext-adapter.c).
CSmapResultV2AttDescs(driver, result, results_mapped, fail, ub) ==
  LET num_rows == PQntuples(result)
      num_cols == PQnfields(result)
      results_to_map == PushCells(result, 0, 0, PgResult(num_cols, <<>>, <<>>))
      new_num_cols == results_mapped.col_num
      called == V2Called(driver)
  IN IF result.state = "none"
     THEN MapOutcome(NULL, NoResult, NoResult, pqext_pgresult_new, pqext_pgresult_new,
                     <<>>, {}, FALSE)
     ELSE IF new_num_cols # 0
     THEN IF \/ (num_cols > 0 /\ new_num_cols > num_cols /\ ub.desc = "crash"
                 /\ fail # "newResult")
             \/ (num_rows * new_num_cols > Len(results_mapped.values) /\ ub.cell = "crash")
          THEN Crashed(results_to_map, results_mapped, called)
          ELSE LET empty == IF fail = "newResult" THEN NoResult
                            ELSE PQmakeEmptyPGresult(result.resultStatus)
                   withAttrs == IF num_cols = 0 THEN empty   \* attDescs is a null pointer
                                ELSE PQsetResultAttrs(empty, new_num_cols,
                                        ReadAttDescs(result, new_num_cols, ub))
                   new_result == SetCells(withAttrs, results_mapped.values, num_rows,
                                          new_num_cols, 0, 0, ub)
               IN MapOutcome(IF fail = "newResult" THEN NULL ELSE 2,
                             result, new_result, results_to_map, results_mapped,
                             called \o <<Ev("PQmakeEmptyPGresult", NULL, "")>>,
                             {"result", "results_mapped"}, FALSE)
     ELSE MapOutcome(1, result, NoResult, results_to_map, results_mapped,
                     called, {"results_mapped"}, FALSE)

\* The compiled build's CSmapResultV2.
MapV2(b, driver, result, resultMapped, fail, ub) ==
  IF b = "names" THEN CSmapResultV2(driver, result, resultMapped, fail, ub)
  ELSE CSmapResultV2AttDescs(driver, result, resultMapped, fail, ub)

\* The undefined-behaviour outcomes that matter for one V2 call.
UBChoices(b, result, resultMapped) ==
  LET N == IF b = "names" THEN Len(resultMapped.column_names) ELSE resultMapped.col_num
  IN { ub \in UBOutcomes :
         /\ (result.ntups * N <= Len(resultMapped.values) => ub.cell = "null")
         /\ (~(b = "attdescs" /\ result.numAttributes > 0 /\ N > result.numAttributes)
               => ub.desc = "a")
         /\ (~(b = "names" /\ N > 0) => ub.name = "ok") }

PQgetResultNoClear(b, c, res, clearOk, resultMapped, fail, ub) ==
  LET fetch == <<Ev("PQgetResult_adaptee", NULL, "")>>
  IN IF c.id # NULL /\ c.pgExtState # NULL
     THEN LET m == MapV2(b, c.pgExtState, res, resultMapped, fail, ub)
          IN [m EXCEPT !.events = fetch \o @]
     ELSE MapOutcome(IF res.state = "none" THEN NULL ELSE 1, res, NoResult,
                     pqext_pgresult_new, pqext_pgresult_new,
                     fetch \o <<Ev("fprintf", NULL, "Warning: Protect Driver not initialized!")>>,
                     {}, FALSE)

PQgetResultNoStateCheck(b, c, res, clearOk, resultMapped, fail, ub) ==
  LET fetch == <<Ev("PQgetResult_adaptee", NULL, "")>>
  IN IF c.id # NULL
     THEN IF res.state = "none"
          THEN MapOutcome(NULL, NoResult, NoResult, pqext_pgresult_new, pqext_pgresult_new,
                 fetch \o <<Ev("PQEXTclearValuesCache", c.pgExtState,
                                IF clearOk THEN "true" ELSE "false")>>,
                 {}, FALSE)
          ELSE LET m == MapV2(b, c.pgExtState, res, resultMapped, fail, ub)
               IN [m EXCEPT !.events = fetch \o @]
     ELSE MapOutcome(NULL, res, NoResult, pqext_pgresult_new, pqext_pgresult_new,
                     fetch, {}, FALSE)

\* PQgetResult.  c: the conn argument; res: what PQgetResult_adaptee returned
\* (NoResult for the end-of-stream null); clearOk: whether the cache clear
\* succeeds; the rest as for CSmapResultV2.
PQgetResult(b, c, res, clearOk, resultMapped, fail, ub) ==
  LET fetch == <<Ev("PQgetResult_adaptee", NULL, "")>>
  IN IF c.id # NULL /\ c.pgExtState # NULL
     THEN IF res.state = "none"
          THEN MapOutcome(NULL, NoResult, NoResult, pqext_pgresult_new, pqext_pgresult_new,
                 fetch \o <<Ev("PQEXTclearValuesCache", c.pgExtState,
                                IF clearOk THEN "true" ELSE "false")>>
                       \o (IF clearOk THEN <<>>
                           ELSE <<Ev("PQEXTmsgError", NULL,
                                     "PQgetResult: failed to clear results cache")>>),
                 {}, FALSE)
          ELSE LET m == MapV2(b, c.pgExtState, res, resultMapped, fail, ub)
               IN [m EXCEPT !.events = fetch \o @]
     ELSE MapOutcome(IF res.state = "none" THEN NULL ELSE 1, res, NoResult,
                     pqext_pgresult_new, pqext_pgresult_new,
                     fetch \o <<Ev("fprintf", NULL, "Warning: Protect Driver not initialized!")>>,
                     {}, FALSE)

\* ------------------------------------------------- V1, the in-place path
FatalNoMemory == "FATAL: Unable to allocate memory while mapping results"
NullData == Ptr("NULL", 0, 0)

\* What malloc(num_rows * num_cols * sizeof ...) may do: succeed, return null
\* with errno ENOMEM, or (for a size of zero only) return null and leave errno.
MallocOutcomes(n) == IF n = 0 THEN {"ok", "enomem", "null"} ELSE {"ok", "enomem"}

\* The flat list, columns outer and rows inner.
RECURSIVE BuildToMap(_, _, _, _)
BuildToMap(result, col, row, to_map) ==
  IF col >= PQnfields(result) THEN to_map
  ELSE IF row >= PQntuples(result) THEN BuildToMap(result, col + 1, 0, to_map)
  ELSE BuildToMap(result, col, row + 1,
         Append(to_map,
           IF PQgetisnull(result, row, col)
           THEN PgValue(TRUE, NullData, PQgetlength(result, row, col))
           ELSE PgValue(FALSE, result.tuples[row + 1][col + 1].value,
                        PQgetlength(result, row, col))))

\* The engine's in-place answers: it leaves null entries alone and gives every
\* other entry a length of its choice (shorter, equal or longer).
V1Responses(to_map) ==
  { [i \in 1..Len(to_map) |->
       IF to_map[i].isnull THEN to_map[i] ELSE [to_map[i] EXCEPT !.len = lens[i]]] :
    lens \in [1..Len(to_map) -> 0..(MaxLen + 1)] }

RECURSIVE SetLengthsRowsOuter(_, _, _, _, _)
SetLengthsRowsOuter(result, to_map, col, row, cell_count) ==
  IF row >= PQntuples(result) THEN result
  ELSE IF col >= PQnfields(result)
    THEN SetLengthsRowsOuter(result, to_map, 0, row + 1, cell_count)
  ELSE IF ~PQgetisnull(result, row, col)
    THEN SetLengthsRowsOuter(
           [result EXCEPT !.tuples[row + 1][col + 1].len = to_map[cell_count + 1].len],
           to_map, col + 1, row, cell_count + 1)
  ELSE SetLengthsRowsOuter(result, to_map, col + 1, row, cell_count + 1)

\* The loop that sets the revised lengths of the non-null cells.
RECURSIVE SetLengths(_, _, _, _, _)
SetLengths(result, to_map, col, row, cell_count) ==
  IF col >= PQnfields(result) THEN result
  ELSE IF row >= PQntuples(result) THEN SetLengths(result, to_map, col + 1, 0, cell_count)
  ELSE IF ~PQgetisnull(result, row, col)
    THEN SetLengths([result EXCEPT !.tuples[row + 1][col + 1].len = to_map[cell_count + 1].len],
                    to_map, col, row + 1, cell_count + 1)
  ELSE SetLengths(result, to_map, col, row + 1, cell_count + 1)

WriteBackAlways(result, engineOk, mapped) == SetLengths(result, mapped, 0, 0, 0)

\* The revised lengths are set only if PQEXTmapResult reported success.
WriteBack(result, engineOk, mapped) ==
  IF engineOk THEN SetLengths(result, mapped, 0, 0, 0) ELSE result

\* CSmapResult.  result: the fetched object or NoResult; malloc: what the
\* allocation of the flat list does; engineOk: PQEXTmapResult's answer;
\* mapped: the flat list as the engine leaves it.
CSmapResult(driver, result, malloc, engineOk, mapped) ==
  LET to_map == BuildToMap(result, 0, 0, <<>>)
  IN IF result.state = "none"
     THEN MapOutcome(NULL, NoResult, NoResult, pqext_pgresult_new, pqext_pgresult_new,
                     <<>>, {}, FALSE)
     ELSE IF malloc # "ok"
     THEN MapOutcome(NULL, result, NoResult, pqext_pgresult_new, pqext_pgresult_new,
                     IF malloc = "enomem" THEN <<Ev("fprintf", NULL, FatalNoMemory)>>
                     ELSE <<>>,
                     {}, FALSE)
     ELSE MapOutcome(1,
                     WriteBack(result, engineOk, mapped),
                     NoResult, PgResult(0, <<>>, to_map), PgResult(0, <<>>, mapped),
                     <<Ev("PQEXTmapResult", driver, IF engineOk THEN "true" ELSE "false"),
                       Ev("free", NULL, "to_map")>>,
                     {}, FALSE)

\* ---------------------------------------------------------------- state
VARIABLES
  build,     \* which revision of the adapter is compiled
  conn,      \* the application's connection (NoConn: none open)
  nconn,     \* connections asked for so far
  eng,       \* the engine's handle bookkeeping
  last,      \* the call in progress or just returned: op, arguments, ret, events
  res,       \* the result objects and value sets of the last fetch
  crashed    \* the process ran into undefined behaviour and died

vars == <<build, conn, nconn, eng, last, res, crashed>>

Idle == [op |-> "idle", conn |-> NULL, arg |-> "", ret |-> NULL, events |-> <<>>]
Call(op, c, arg, ret, events) ==
  [op |-> op, conn |-> c.id, arg |-> arg, ret |-> ret, events |-> events]

\* fetched: the object as PQgetResult_adaptee returned it; fail: the
\* allocation that failed; the rest from the mapping's outcome.
Mapping(fetched, fail, m) ==
  [fetched |-> fetched, fail |-> fail, orig |-> m.orig, new |-> m.new,
   toMap |-> m.toMap, mapped |-> m.mapped, unowned |-> m.unowned]
NoMapping ==
  [fetched |-> NoResult, fail |-> "none", orig |-> NoResult, new |-> NoResult,
   toMap |-> pqext_pgresult_new, mapped |-> pqext_pgresult_new, unowned |-> {}]

Handles == 1..MaxConns
NewEngine == [inits |-> [h \in Handles |-> 0], frees |-> [h \in Handles |-> 0], uaf |-> FALSE]

Init ==
  /\ build \in Builds
  /\ conn = NoConn
  /\ nconn = 0
  /\ eng = NewEngine
  /\ last = Idle
  /\ res = NoMapping
  /\ crashed = FALSE

Ready == last.op = "idle" /\ ~crashed

\* What the underlying connect call may return as connection number n.
AdapteeConns(n, statuses) ==
  {NoConn} \cup { [id |-> n, status |-> st, dbName |-> db, pgExtState |-> NULL] :
                  st \in statuses, db \in DbNames }

Connected(op, out) ==
  /\ conn' = out.conn
  /\ nconn' = nconn + 1
  /\ eng' = RunEngine(eng, out.events)
  /\ last' = Call(op, NoConn, "", out.ret, out.events)
  /\ UNCHANGED <<build, res, crashed>>

DoPQconnectdbParams ==
  /\ Ready /\ conn.id = NULL /\ nconn < MaxConns
  /\ \E c \in AdapteeConns(nconn + 1, {"CONNECTION_OK", "CONNECTION_BAD"}),
        h \in {NULL, nconn + 1} :
       Connected("PQconnectdbParams", PQconnectdbParams(c, h))

DoPQconnectdb ==
  /\ Ready /\ conn.id = NULL /\ nconn < MaxConns
  /\ \E c \in AdapteeConns(nconn + 1, {"CONNECTION_OK", "CONNECTION_BAD"}),
        h \in {NULL, nconn + 1} :
       Connected("PQconnectdb", PQconnectdb(c, h))

DoPQconnectStart ==
  /\ Ready /\ conn.id = NULL /\ nconn < MaxConns
  /\ \E c \in AdapteeConns(nconn + 1, {"CONNECTION_STARTED", "CONNECTION_BAD"}),
        h \in {NULL, nconn + 1} :
       Connected("PQconnectStart", PQconnectStart(c, h))

DoPQfinish ==
  /\ Ready
  /\ \E c \in {NoConn, conn} :
       /\ last' = Call("PQfinish", c, "", NULL, PQfinish(c))
       /\ eng' = RunEngine(eng, PQfinish(c))
       /\ conn' = IF c.id # NULL THEN NoConn ELSE conn
  /\ UNCHANGED <<build, nconn, res, crashed>>

Sent(op, c, query, out) ==
  /\ last' = Call(op, c, query, out.ret, out.events)
  /\ eng' = RunEngine(eng, out.events)
  /\ crashed' = out.crash
  /\ UNCHANGED <<build, conn, nconn, res>>

DoPQsendQuery ==
  /\ Ready
  /\ \E c \in {NoConn, conn}, q \in Queries, er \in {0, 1}, ar \in {0, 1} :
       Sent("PQsendQuery", c, q, PQsendQuery(c, q, er, ar))

DoPQsendQueryPrepared ==
  /\ Ready
  /\ \E c \in {NoConn, conn}, q \in Queries, er \in {0, 1}, ar \in {0, 1} :
       Sent("PQsendQueryPrepared", c, q, PQsendQueryPrepared(c, q, er, ar))

DoPQsendPrepare ==
  /\ Ready
  /\ \E c \in {NoConn, conn}, q \in Queries, er \in {0, 1}, ar \in {0, 1} :
       Sent("PQsendPrepare", c, q, PQsendPrepare(c, q, er, ar))

DoPQsendQueryParams ==
  /\ Ready
  /\ \E c \in {NoConn, conn}, q \in Queries, er \in {0, 1}, ar \in {0, 1} :
       Sent("PQsendQueryParams", c, q, PQsendQueryParams(c, q, er, ar))

Fetched(c, fetched, fail, m) ==
  /\ last' = Call("PQgetResult", c, "", m.ret, m.events)
  /\ res' = IF m.crash THEN [NoMapping EXCEPT !.fail = fail]
            ELSE Mapping(fetched, fail, m)
  /\ eng' = RunEngine(eng, m.events)
  /\ crashed' = m.crash
  /\ UNCHANGED <<build, conn, nconn>>

\* A fetch on a connection with no open stream or in degraded mode, or at the
\* end of the stream: no mapping takes place.
DoPQgetResultPlain ==
  /\ Ready
  /\ \E c \in {NoConn, conn},
        fetched \in {NoResult} \cup FetchedResults, clearOk \in BOOLEAN :
       /\ c.id = NULL => fetched = NoResult
       /\ c.pgExtState = NULL \/ fetched = NoResult
       /\ Fetched(c, fetched, "none",
                  PQgetResult(build, c, fetched, clearOk, pqext_pgresult_new, "none",
                              [cell |-> "null", desc |-> "a", name |-> "ok"]))

\* A fetch that maps a result with the Extension State attached.
DoPQgetResultMap ==
  /\ Ready /\ conn.id # NULL /\ conn.pgExtState # NULL
  /\ \E fetched \in FetchedResults :
       \E resultMapped \in MappedResults(fetched.ntups, build = "names") :
         \E fail \in IF resultMapped.col_num = 0 THEN {"none"} ELSE AllocFailures,
            ub \in UBChoices(build, fetched, resultMapped) :
           /\ build = "attdescs" => fail \in {"none", "newResult"}
           /\ Fetched(conn, fetched, fail,
                      PQgetResult(build, conn, fetched, TRUE, resultMapped, fail, ub))

\* The caller takes the return value; the next call starts afresh.
Return ==
  /\ last.op # "idle" /\ ~crashed
  /\ last' = Idle
  /\ res' = NoMapping
  /\ UNCHANGED <<build, conn, nconn, eng, crashed>>

Next ==
  \/ DoPQconnectdbParams
  \/ DoPQconnectdb
  \/ DoPQconnectStart
  \/ DoPQfinish
  \/ DoPQsendQuery
  \/ DoPQsendQueryPrepared
  \/ DoPQsendPrepare
  \/ DoPQsendQueryParams
  \/ DoPQgetResultPlain
  \/ DoPQgetResultMap
  \/ Return

Spec == Init /\ [][Next]_vars

\* CSmapResult is static and has no caller in either build: it is exercised
\* on its own, on a connection whose Extension State is attached.
InitV1 ==
  /\ build \in Builds
  /\ conn \in { [id |-> 1, status |-> "CONNECTION_OK", dbName |-> db, pgExtState |-> 1] :
                db \in DbNames }
  /\ nconn = 1
  /\ eng = [NewEngine EXCEPT !.inits[1] = 1]
  /\ last = Idle
  /\ res = NoMapping
  /\ crashed = FALSE

DoCSmapResult ==
  /\ Ready
  /\ \E result \in {NoResult} \cup FetchedResults :
       \E malloc \in MallocOutcomes(result.ntups * result.numAttributes),
          engineOk \in BOOLEAN,
          mapped \in V1Responses(BuildToMap(result, 0, 0, <<>>)) :
         LET m == CSmapResult(conn.pgExtState, result, malloc, engineOk, mapped)
         IN /\ last' = Call("CSmapResult", conn, "", m.ret, m.events)
            /\ res' = Mapping(result, IF malloc = "ok" THEN "none" ELSE "to_map", m)
            /\ eng' = RunEngine(eng, m.events)
  /\ UNCHANGED <<build, conn, nconn, crashed>>

NextV1 ==
  \/ DoCSmapResult
  \/ Return

SpecV1 == InitV1 /\ [][NextV1]_vars

\* ---------------------------------------------------------------- claims
\* The last call was a PQgetResult that returned.
FetchReturned == last.op = "PQgetResult" /\ ~crashed
\* ... and it went through the V2 mapping.
V2Mapped == FetchReturned /\ HasOp(last.events, {"pqext_map_result_v2"})

\* C1: a PQgetResult on a connection with no Extension State returns exactly
\* what PQgetResult_adaptee produced (the same object, its rows, columns and
\* cells untouched, or the end-of-stream null), and calls neither a mapping
\* operation nor the cache clear.
C1_PassThroughWithoutState ==
  (FetchReturned /\ (last.conn = NULL \/ conn.pgExtState = NULL)) =>
    /\ last.ret = (IF res.fetched.state = "none" THEN NULL ELSE 1)
    /\ res.orig = res.fetched
    /\ res.new = NoResult
    /\ ~HasOp(last.events, MapOps \cup {"PQEXTclearValuesCache"})

C1_Witness ==
  /\ FetchReturned /\ last.conn # NULL /\ conn.pgExtState = NULL
  /\ res.fetched.ntups = 2 /\ res.fetched.numAttributes = 2
  /\ ~PQgetisnull(res.fetched, 0, 0) /\ PQgetisnull(res.fetched, 1, 1)
  /\ last.ret = 1 /\ res.orig = res.fetched

\* C2: a V2 mapping of a result of R rows for which the engine names N > 0
\* columns returns a result of exactly N columns, named as the engine named
\* them and in that order, and of exactly R rows, whatever grid the engine
\* returned (here: every full grid, with no allocation failing).
C2_ReconstructedShape ==
  (/\ V2Mapped /\ build = "names" /\ res.mapped.col_num > 0 /\ res.fail = "none"
   /\ Len(res.mapped.values) = res.fetched.ntups * res.mapped.col_num) =>
    /\ last.ret = 2
    /\ PQnfields(res.new) = res.mapped.col_num
    /\ res.new.attDescs = res.mapped.column_names
    /\ PQntuples(res.new) = PQntuples(res.fetched)

\* C3: in the V2 path a null cell of the fetched result is pushed to the
\* engine as a null value, at its row-major place, and a cell the engine's
\* grid holds as null at newNumCols*row+col is null in the result returned.
C3_NullsPreserved ==
  V2Mapped =>
    LET R == PQntuples(res.fetched)
        C == PQnfields(res.fetched)
        N == res.mapped.col_num
    IN /\ Len(res.toMap.values) = R * C
       /\ \A row \in 0..(R - 1), col \in 0..(C - 1) :
            PQgetisnull(res.fetched, row, col) =>
              pqext_pgvalue_isnull(res.toMap.values[C * row + col + 1])
       /\ last.ret = 2 =>
            \A row \in 0..(R - 1), col \in 0..(N - 1) :
              (/\ N * row + col < Len(res.mapped.values)
               /\ pqext_pgvalue_isnull(res.mapped.values[N * row + col + 1]))
                => PQgetisnull(res.new, row, col)

C3_Witness ==
  /\ V2Mapped /\ last.ret = 2
  /\ PQntuples(res.fetched) = 2 /\ PQnfields(res.fetched) = 2
  /\ PQgetisnull(res.fetched, 0, 1) /\ ~PQgetisnull(res.fetched, 1, 0)
  /\ res.toMap.values[2].isnull /\ ~res.toMap.values[3].isnull
  /\ res.mapped.col_num = 2 /\ Len(res.mapped.values) = 4
  /\ ~res.mapped.values[1].isnull /\ res.mapped.values[2].isnull
  /\ InRange(res.new, 0, 1) /\ PQgetisnull(res.new, 0, 1)
  /\ ~PQgetisnull(res.new, 0, 0)

\* C4: when the engine's V2 response names no column, CSmapResultV2 returns
\* the original result object itself, unmodified and not released, and
\* allocates no new result object.
C4_ZeroColumnsPassThrough ==
  (V2Mapped /\ res.mapped.col_num = 0) =>
    /\ last.ret = 1
    /\ res.orig = res.fetched
    /\ res.orig.state = "live"
    /\ res.new = NoResult
    /\ ~HasOp(last.events, {"PQclear", "PQmakeEmptyPGresult"})

C4_Witness ==
  /\ V2Mapped /\ res.mapped.col_num = 0
  /\ PQntuples(res.fetched) = 2 /\ PQnfields(res.fetched) = 2
  /\ ~PQgetisnull(res.fetched, 1, 1)
  /\ last.ret = 1 /\ res.orig = res.fetched

\* The events of the last call that are calls of op.
EventsOf(op) == {i \in 1..Len(last.events) : last.events[i].op = op}

\* C5 as stated: whenever PQgetResult_adaptee returns the end-of-stream null,
\* the cache clear is called exactly once and PQgetResult returns null; if the
\* clear fails a diagnostic is emitted; no mapping operation is called.
C5_EndOfStreamAlwaysClears ==
  (FetchReturned /\ res.fetched.state = "none") =>
    /\ CountOp(last.events, "PQEXTclearValuesCache") = 1
    /\ last.ret = NULL
    /\ ~HasOp(last.events, MapOps)
    /\ \A i \in EventsOf("PQEXTclearValuesCache") :
         last.events[i].arg = "false" => HasOp(last.events, {"PQEXTmsgError"})

\* C5, amended: on a connection with an Extension State attached, whenever
\* PQgetResult_adaptee returns the end-of-stream null, the cache clear is
\* called exactly once, on that Extension State, and PQgetResult returns null
\* whether the clear succeeds or fails; a diagnostic is emitted exactly when it
\* fails; no mapping operation is called.
C5_EndOfStreamClearsAttached ==
  (/\ FetchReturned /\ res.fetched.state = "none"
   /\ last.conn # NULL /\ conn.pgExtState # NULL) =>
    /\ CountOp(last.events, "PQEXTclearValuesCache") = 1
    /\ last.ret = NULL
    /\ ~HasOp(last.events, MapOps)
    /\ \A i \in EventsOf("PQEXTclearValuesCache") :
         /\ last.events[i].drv = conn.pgExtState
         /\ last.events[i].arg = "false" <=> HasOp(last.events, {"PQEXTmsgError"})

C5_Witness ==
  /\ FetchReturned /\ res.fetched.state = "none"
  /\ last.conn # NULL /\ conn.pgExtState # NULL
  /\ last.events[2] = Ev("PQEXTclearValuesCache", conn.pgExtState, "false")
  /\ HasOp(last.events, {"PQEXTmsgError"})
  /\ last.ret = NULL

ConnectOps == {"PQconnectdbParams", "PQconnectdb", "PQconnectStart"}

\* C6: an Extension State is created at most once, and only by a connect
\* call; it is released at most once, only inside PQfinish and there before
\* PQfinish_adaptee, and exactly once when PQfinish is called on its
\* connection; a released Extension State is never passed to the engine, and
\* the state attached to the open connection is never a released one.
C6_ExtensionStateLifetime ==
  /\ \A h \in Handles : eng.inits[h] <= 1 /\ eng.frees[h] <= eng.inits[h]
  /\ ~eng.uaf
  /\ HasOp(last.events, {"PQEXTinit"}) => last.op \in ConnectOps
  /\ HasOp(last.events, {"PQEXTfree"}) =>
       /\ last.op = "PQfinish"
       /\ CountOp(last.events, "PQEXTfree") = 1
       /\ \A i \in EventsOf("PQEXTfree"), j \in EventsOf("PQfinish_adaptee") : i < j
  /\ (last.op = "PQfinish" /\ last.conn # NULL) =>
       /\ eng.frees[last.conn] = eng.inits[last.conn]
       /\ conn = NoConn
  /\ conn.pgExtState # NULL =>
       eng.inits[conn.pgExtState] = 1 /\ eng.frees[conn.pgExtState] = 0

C6_Witness ==
  /\ last.op = "PQfinish" /\ last.conn = 2
  /\ eng.inits[1] = 1 /\ eng.frees[1] = 1
  /\ eng.inits[2] = 1 /\ eng.frees[2] = 1
  /\ last.events = <<Ev("PQEXTfree", 2, ""), Ev("PQfinish_adaptee", NULL, "")>>

\* C7: a connect wrapper calls the engine init, with the connection's
\* database name, and stores its handle on the connection exactly when the
\* underlying call returned a connection whose status is not bad; otherwise
\* no init and no Extension State; it always returns the connection the
\* underlying call returned, also when the init returned no handle.
C7_InitOnlyOnSuccess ==
  last.op \in ConnectOps =>
    LET established == conn.id # NULL /\ conn.status # "CONNECTION_BAD"
    IN /\ CountOp(last.events, "PQEXTinit") = (IF established THEN 1 ELSE 0)
       /\ \A i \in EventsOf("PQEXTinit") :
            /\ last.events[i].arg = conn.dbName
            /\ last.events[i].drv = conn.pgExtState
       /\ ~established => conn.pgExtState = NULL
       /\ last.ret = conn.id
       /\ last.events[1].op \in {"PQconnectdbParams_adaptee", "PQconnectdb_adaptee",
                                 "PQconnectStart_adaptee"}

C7_Witness ==
  /\ last.op = "PQconnectdb" /\ conn.id # NULL /\ conn.status = "CONNECTION_OK"
  /\ conn.dbName = "db2"
  /\ last.events[2] = Ev("PQEXTinit", NULL, "db2")
  /\ conn.pgExtState = NULL /\ last.ret = conn.id

SendOps == {"PQsendQuery", "PQsendQueryPrepared", "PQsendPrepare", "PQsendQueryParams"}
AdapteeOf(op) ==
  CASE op = "PQsendQuery" -> "PQsendQuery_adaptee"
    [] op = "PQsendQueryPrepared" -> "PQsendQueryPrepared_adaptee"
    [] op = "PQsendPrepare" -> "PQsendPrepare_adaptee"
    [] OTHER -> "PQsendQueryParams_adaptee"

\* C8: each of the four query-issuing entry points, called on a connection
\* with no Extension State, emits a diagnostic and forwards its unmodified
\* arguments to its own _adaptee, without calling an engine rewrite hook.
C8_DegradedSendForwards ==
  (/\ last.op \in SendOps /\ ~crashed
   /\ last.conn # NULL /\ conn.pgExtState = NULL) =>
    /\ HasOp(last.events, {"PQEXTmsgError"})
    /\ \E i \in 1..Len(last.events) :
         last.events[i] = Ev(AdapteeOf(last.op), NULL, last.arg)
    /\ ~HasOp(last.events, RewriteHooks)

\* C10: whenever an allocation of the mapping fails, the fetch emits the
\* fatal diagnostic and returns null, no new result object is left behind,
\* and the process and its connection go on.
C10_AllocationFailureIsReported ==
  (last.op \in {"PQgetResult", "CSmapResult"} /\ res.fail # "none") =>
    /\ ~crashed
    /\ last.ret = NULL
    /\ res.new = NoResult
    /\ \E i \in 1..Len(last.events) : last.events[i] = Ev("fprintf", NULL, FatalNoMemory)

\* C9: a V1 mapping in which the engine reports success and gives no entry a
\* length above its original returns the same result object, of the same
\* shape, every value pointer unchanged, every null cell as it was, and every
\* non-null cell with the length the engine gave the entry built from that
\* cell, the entries being numbered columns outer, rows inner.
C9_V1OnlyLengthsChange ==
  (/\ last.op = "CSmapResult"
   /\ HasOp(last.events, {"PQEXTmapResult"})
   /\ \A i \in EventsOf("PQEXTmapResult") : last.events[i].arg = "true"
   /\ \A i \in 1..Len(res.mapped.values) :
        res.mapped.values[i].len <= res.toMap.values[i].len) =>
    LET R == PQntuples(res.fetched)
        C == PQnfields(res.fetched)
    IN /\ last.ret = 1
       /\ res.orig.state = "live"
       /\ PQntuples(res.orig) = R /\ PQnfields(res.orig) = C
       /\ res.orig.attDescs = res.fetched.attDescs
       /\ Len(res.toMap.values) = R * C
       /\ \A row \in 1..R, col \in 1..C :
            LET before == res.fetched.tuples[row][col]
                after == res.orig.tuples[row][col]
                entry == (col - 1) * R + (row - 1) + 1
            IN /\ after.value = before.value
               /\ before.len = NULL_LEN => after = before
               /\ before.len # NULL_LEN =>
                    /\ res.toMap.values[entry].data = before.value
                    /\ after.len = res.mapped.values[entry].len

C9_Witness ==
  /\ last.op = "CSmapResult" /\ last.ret = 1
  /\ last.events[1] = Ev("PQEXTmapResult", conn.pgExtState, "true")
  /\ PQntuples(res.fetched) = 2 /\ PQnfields(res.fetched) = 2
  /\ PQgetisnull(res.fetched, 0, 0) /\ ~PQgetisnull(res.fetched, 1, 0)
  /\ ~PQgetisnull(res.fetched, 0, 1) /\ ~PQgetisnull(res.fetched, 1, 1)
  /\ \A i \in 1..4 : res.mapped.values[i].len <= res.toMap.values[i].len
  /\ res.mapped.values[3].len = 0 /\ res.mapped.values[2].len = MaxLen
  /\ PQgetlength(res.orig, 0, 1) = 0 /\ PQgetlength(res.orig, 1, 0) = MaxLen
  /\ PQgetisnull(res.orig, 0, 0)

\* C11: when PQEXTmapResult reports failure, CSmapResult returns the original
\* result object with every cell's length, value pointer and null flag as
\* fetched, whatever lengths the engine left in the flat list, and the flat
\* list is freed after the engine's call.
C11_V1FailureKeepsResult ==
  (/\ last.op = "CSmapResult"
   /\ \E i \in EventsOf("PQEXTmapResult") : last.events[i].arg = "false") =>
    /\ last.ret = 1
    /\ res.orig = res.fetched
    /\ res.orig.state = "live"
    /\ CountOp(last.events, "free") = 1
    /\ \A i \in EventsOf("PQEXTmapResult"), j \in EventsOf("free") :
         i < j /\ last.events[j].arg = "to_map"

C11_Witness ==
  /\ last.op = "CSmapResult" /\ last.ret = 1
  /\ last.events = <<Ev("PQEXTmapResult", conn.pgExtState, "false"),
                     Ev("free", NULL, "to_map")>>
  /\ PQntuples(res.fetched) = 2 /\ PQnfields(res.fetched) = 2
  /\ PQgetisnull(res.fetched, 1, 0) /\ ~PQgetisnull(res.fetched, 0, 0)
  /\ res.mapped.values[1].len = 0 /\ res.mapped.values[3].len = MaxLen + 1
  /\ res.mapped.values # res.toMap.values
  /\ PQgetlength(res.orig, 0, 0) = MaxLen
  /\ res.orig = res.fetched

\* C12: when a V2 reconstruction returns the new result object, the original
\* result object has been released exactly once, after the new object was
\* built, and nothing the adapter allocated for the mapping (the value sets,
\* the new column descriptor list, the column-name copies) is left unowned.
C12_ReconstructionReleasesAll ==
  (V2Mapped /\ res.mapped.col_num > 0 /\ res.fail = "none") =>
    /\ last.ret = 2
    /\ res.orig.state = "freed"
    /\ CountOp(last.events, "PQclear") = 1
    /\ \A i \in EventsOf("PQmakeEmptyPGresult"), j \in EventsOf("PQclear") : i < j
    /\ res.unowned = {}

\* C13: in a V2 reconstruction every access is within bounds: for every row
\* of the original result and every new column, the index read from the
\* engine's value list is below the number of values the engine returned;
\* every column descriptor read lies within the descriptor list handed to
\* PQsetResultAttrs; and the buffer of each column-name copy holds the name
\* and its terminator.
C13_AccessesInBounds ==
  (V2Mapped /\ res.mapped.col_num > 0) =>
    LET R == PQntuples(res.fetched)
        N == res.mapped.col_num
    IN /\ \A row \in 0..(R - 1), col \in 0..(N - 1) :
            CellIndex(N, row, col) < Len(res.mapped.values)
       /\ (build = "attdescs" /\ PQnfields(res.fetched) > 0) =>
            N <= PQnfields(res.fetched)
       /\ build = "names" =>
            \A c \in 1..N :
              NameBufSize(res.mapped.column_names[c])
                >= NameCopyBytes(res.mapped.column_names[c])

====
